---- MODULE Spec2Model ----
(***************************************************************************)
(* The rule-based hand-pose classifier of asl-app/model.py                 *)
(* (GestureRecognizer): finger open/closed predicate, the 26 letter rules, *)
(* the confidence scorer and the selector loop of _recognize_gesture.      *)
(*                                                                         *)
(* Coordinates are integers in hundredths (x = 37 is the Python float      *)
(* 0.37).  Comparisons between coordinates and distances are evaluated in  *)
(* exact arithmetic on these decimals.  The confidence is a Python float:  *)
(* it is modelled as an IEEE-754 binary64 value with round-to-nearest-even *)
(* addition, because 0.75 - 0.1 + 0.05 is 0.7000000000000001 in Python and *)
(* the selector compares it with 0.7.                                      *)
(***************************************************************************)
EXTENDS Integers, Sequences, FiniteSets

----------------------------------------------------------------------------
(* binary64 values.  A value v is the integer N = v * 2^57, kept as two    *)
(* limbs N = hi * 2^30 + lo with 0 <= lo < 2^30 (hi carries the sign).     *)
(* Every value the scorer produces is a multiple of 2^-57 below 4 in       *)
(* magnitude, so N is exact and |hi| < 2^29.                               *)

Limb == 2 ^ 30

F_0_0  == [hi |-> 0,         lo |-> 0]          \* 0.0
F_0_05 == [hi |-> 6710886,   lo |-> 429496730]  \* 0.05 = 0x1.999999999999ap-5
F_0_1  == [hi |-> 13421772,  lo |-> 858993460]  \* 0.1  = 0x1.999999999999ap-4
F_0_15 == [hi |-> 20132659,  lo |-> 214748364]  \* 0.15 = 0x1.3333333333333p-3
F_0_3  == [hi |-> 40265318,  lo |-> 429496728]  \* 0.3  = 0x1.3333333333333p-2
F_0_5  == [hi |-> 67108864,  lo |-> 0]          \* 0.5  = 0x1p-1
F_0_6  == [hi |-> 80530636,  lo |-> 858993456]  \* 0.6  = 0x1.3333333333333p-1
F_0_7  == [hi |-> 93952409,  lo |-> 644245088]  \* 0.7  = 0x1.6666666666666p-1
F_0_75 == [hi |-> 100663296, lo |-> 0]          \* 0.75 = 0x1.8p-1
F_1_0  == [hi |-> 134217728, lo |-> 0]          \* 1.0

FNeg(a) ==
    IF a.lo = 0 THEN [hi |-> 0 - a.hi, lo |-> 0]
    ELSE [hi |-> 0 - a.hi - 1, lo |-> Limb - a.lo]

FLess(a, b) == a.hi < b.hi \/ (a.hi = b.hi /\ a.lo < b.lo)

\* the exact sum of two values
ExactAdd(a, b) ==
    [hi |-> a.hi + b.hi + ((a.lo + b.lo) \div Limb), lo |-> (a.lo + b.lo) % Limb]

\* the spacing of binary64 values at magnitude m >= 0, in units of 2^-57
Ulp(m) ==
    IF m.hi < 8388608 THEN 1          \* below 2^-4: every multiple of 2^-57
    ELSE IF m.hi < 16777216 THEN 2    \* [2^-4, 2^-3)
    ELSE IF m.hi < 33554432 THEN 4    \* [2^-3, 2^-2)
    ELSE IF m.hi < 67108864 THEN 8    \* [2^-2, 2^-1)
    ELSE IF m.hi < 134217728 THEN 16  \* [2^-1, 1)
    ELSE IF m.hi < 268435456 THEN 32  \* [1, 2)
    ELSE 64                           \* [2, 4)

\* round a magnitude m >= 0 to the nearest binary64 value, ties to even
RoundMag(m) ==
    LET q    == Ulp(m)
        r    == m.lo % q
        down == [hi |-> m.hi, lo |-> m.lo - r]
        up   == ExactAdd(down, [hi |-> 0, lo |-> q])
    IN  IF r = 0 THEN m
        ELSE IF 2 * r < q THEN down
        ELSE IF 2 * r > q THEN up
        ELSE IF (m.lo \div q) % 2 = 0 THEN down ELSE up

RoundNearestEven(n) ==
    IF n.hi < 0 THEN FNeg(RoundMag(FNeg(n))) ELSE RoundMag(n)

\* Python's a + b and a - b on floats
FAdd(a, b) == RoundNearestEven(ExactAdd(a, b))
FSub(a, b) == FAdd(a, FNeg(b))

\* Python's max(a, b) and min(a, b): the first argument unless the second is
\* strictly larger (smaller)
FMax(a, b) == IF FLess(a, b) THEN b ELSE a
FMin(a, b) == IF FLess(b, a) THEN b ELSE a

----------------------------------------------------------------------------
(* Landmarks.  A hand pose is a sequence of records [x, y, z]; Python's    *)
(* landmarks[i] is lm[i + 1].  Reading an index >= len(landmarks) raises   *)
(* IndexError, so every test carries the highest index it reads.           *)

NumLandmarks == 21
NumGestures  == 26
GestureIds   == 0 .. (NumGestures - 1)

\* no gesture (Python's None)
None == 0 - 1

InRange(lm, i) == i < Len(lm)

\* get_distance(p, q) ** 2, in 1e-4 units
get_distance2(p, q) ==
    LET dx == p.x - q.x
        dy == p.y - q.y
        dz == p.z - q.z
    IN  dx * dx + dy * dy + dz * dz

\* base_to_tip < (base_to_middle + middle_to_tip) * 0.7 for the squared
\* distances a = base_to_tip^2, b = base_to_middle^2, c = middle_to_tip^2:
\* 100 a < 49 (b + c + 2 sqrt(b c)), i.e. l < 98 sqrt(b c) with
\* l = 100 a - 49 (b + c)
CloserOrLevel(a, b, c) ==
    LET l == 100 * a - 49 * (b + c)
    IN  l < 0 \/ l * l <= 9604 * b * c

CloserThanPath(a, b, c) ==
    LET l == 100 * a - 49 * (b + c)
    IN  l < 0 \/ l * l < 9604 * b * c

\* _is_finger_closed with >= and <= for > and <
is_finger_closed_or_level(lm, finger_idx) ==
    IF finger_idx = 0
    THEN lm[3 + 1].y >= lm[4 + 1].y
    ELSE LET base_idx   == finger_idx * 4 + 1
             middle_idx == finger_idx * 4 + 2
             tip_idx    == finger_idx * 4 + 3
         IN  CloserOrLevel(get_distance2(lm[base_idx + 1], lm[tip_idx + 1]),
                           get_distance2(lm[base_idx + 1], lm[middle_idx + 1]),
                           get_distance2(lm[middle_idx + 1], lm[tip_idx + 1]))

\* _is_finger_closed with the thumb closed when its tip is below its joint
is_finger_closed_tip_below(lm, finger_idx) ==
    IF finger_idx = 0
    THEN lm[4 + 1].y > lm[3 + 1].y
    ELSE LET base_idx   == finger_idx * 4 + 1
             middle_idx == finger_idx * 4 + 2
             tip_idx    == finger_idx * 4 + 3
         IN  CloserThanPath(get_distance2(lm[base_idx + 1], lm[tip_idx + 1]),
                            get_distance2(lm[base_idx + 1], lm[middle_idx + 1]),
                            get_distance2(lm[middle_idx + 1], lm[tip_idx + 1]))

\* _is_finger_closed on a pose that holds every landmark it reads
is_finger_closed(lm, finger_idx) ==
    IF finger_idx = 0
    THEN lm[3 + 1].y > lm[4 + 1].y
    ELSE LET base_idx   == finger_idx * 4 + 1
             middle_idx == finger_idx * 4 + 2
             tip_idx    == finger_idx * 4 + 3
         IN  CloserThanPath(get_distance2(lm[base_idx + 1], lm[tip_idx + 1]),
                            get_distance2(lm[base_idx + 1], lm[middle_idx + 1]),
                            get_distance2(lm[middle_idx + 1], lm[tip_idx + 1]))

\* the highest landmark index _is_finger_closed reads
FingerNeeds(finger_idx) == IF finger_idx = 0 THEN 4 ELSE finger_idx * 4 + 3

Max2(i, j) == IF i < j THEN j ELSE i

(* One conjunct of a rule or of a reinforcement check, as data: what it    *)
(* tests, on which landmarks, and the highest landmark index it reads.     *)
Closed(f)    == [test |-> "closed", finger |-> f, need |-> FingerNeeds(f)]
NotClosed(f) == [test |-> "not closed", finger |-> f, need |-> FingerNeeds(f)]
\* 0 < get_distance(landmarks[i], landmarks[j]) < d / 100
NearerButApart(i, j, d) ==
    [test |-> "between", i |-> i, j |-> j, lo |-> 0, hi |-> d, need |-> Max2(i, j)]

\* get_distance(landmarks[i], landmarks[j]) < d / 100
Nearer(i, j, d)  == [test |-> "nearer", i |-> i, j |-> j, d |-> d, need |-> Max2(i, j)]
\* get_distance(landmarks[i], landmarks[j]) > d / 100
Farther(i, j, d) == [test |-> "farther", i |-> i, j |-> j, d |-> d, need |-> Max2(i, j)]
\* lo / 100 < get_distance(landmarks[i], landmarks[j]) < hi / 100
Between(i, j, lo, hi) ==
    [test |-> "between", i |-> i, j |-> j, lo |-> lo, hi |-> hi, need |-> Max2(i, j)]
\* landmarks[i].x > landmarks[j].x, and the same for y and z
XGreater(i, j) == [test |-> "x greater", i |-> i, j |-> j, need |-> Max2(i, j)]
YGreater(i, j) == [test |-> "y greater", i |-> i, j |-> j, need |-> Max2(i, j)]
ZGreater(i, j) == [test |-> "z greater", i |-> i, j |-> j, need |-> Max2(i, j)]
\* landmarks[i].y < landmarks[j].y - d / 100
YBelowBy(i, j, d) == [test |-> "y below by", i |-> i, j |-> j, d |-> d, need |-> Max2(i, j)]
\* exactly n of the fingers first..last are not closed
Extended(first, last, n) ==
    [test |-> "extended", first |-> first, last |-> last, n |-> n,
     need |-> FingerNeeds(last)]

\* the number of fingers first..last that are not closed
extended_fingers(lm, first, last) ==
    Cardinality({i \in first .. last : ~is_finger_closed(lm, i)})

\* the conjunct's value on a pose that holds every landmark it reads
Holds(lm, t) ==
    CASE t.test = "closed"     -> is_finger_closed(lm, t.finger)
      [] t.test = "not closed" -> ~is_finger_closed(lm, t.finger)
      [] t.test = "nearer"     -> get_distance2(lm[t.i + 1], lm[t.j + 1]) < t.d * t.d
      [] t.test = "farther"    -> get_distance2(lm[t.i + 1], lm[t.j + 1]) > t.d * t.d
      [] t.test = "between"    -> /\ t.lo * t.lo < get_distance2(lm[t.i + 1], lm[t.j + 1])
                                  /\ get_distance2(lm[t.i + 1], lm[t.j + 1]) < t.hi * t.hi
      [] t.test = "x greater"  -> lm[t.i + 1].x > lm[t.j + 1].x
      [] t.test = "y greater"  -> lm[t.i + 1].y > lm[t.j + 1].y
      [] t.test = "z greater"  -> lm[t.i + 1].z > lm[t.j + 1].z
      [] t.test = "y below by" -> lm[t.i + 1].y < lm[t.j + 1].y - t.d
      [] t.test = "extended"   -> extended_fingers(lm, t.first, t.last) = t.n

\* the letter rules of _init_classifier, each the conjuncts of its lambda in
\* the order Python evaluates them
rules ==
    [gesture_id \in GestureIds |->
        CASE gesture_id = 0  -> <<Closed(1), Closed(2), Closed(3), Closed(4), NotClosed(0)>>
          [] gesture_id = 1  -> <<NotClosed(1), NotClosed(2), NotClosed(3), NotClosed(4)>>
          [] gesture_id = 2  -> <<Nearer(4, 8, 10), NotClosed(1), NotClosed(2),
                                  NotClosed(3), NotClosed(4)>>
          [] gesture_id = 3  -> <<NotClosed(1), Closed(2), Closed(3), Closed(4)>>
          [] gesture_id = 4  -> <<Closed(1), Closed(2), Closed(3), Closed(4)>>
          [] gesture_id = 5  -> <<Nearer(4, 8, 5), NotClosed(2), NotClosed(3), NotClosed(4)>>
          [] gesture_id = 6  -> <<NotClosed(1), Closed(2), Closed(3), Closed(4),
                                  NotClosed(0)>>
          [] gesture_id = 7  -> <<NotClosed(1), NotClosed(2), Closed(3), Closed(4)>>
          [] gesture_id = 8  -> <<Closed(1), Closed(2), Closed(3), NotClosed(4)>>
          [] gesture_id = 9  -> <<Closed(1), Closed(2), Closed(3), NotClosed(4)>>
          [] gesture_id = 10 -> <<NotClosed(1), NotClosed(2), Closed(3), Closed(4),
                                  Nearer(4, 10, 10)>>
          [] gesture_id = 11 -> <<NotClosed(1), Closed(2), Closed(3), Closed(4),
                                  XGreater(4, 3)>>
          [] gesture_id = 12 -> <<Closed(1), Closed(2), Closed(3), XGreater(5, 4)>>
          [] gesture_id = 13 -> <<Closed(1), Closed(2), Closed(3), Closed(4),
                                  XGreater(9, 4)>>
          [] gesture_id = 14 -> <<Nearer(4, 8, 8)>>
          [] gesture_id = 15 -> <<NotClosed(1), Closed(2), Closed(3), Closed(4),
                                  YGreater(8, 5)>>
          [] gesture_id = 16 -> <<NotClosed(1), Closed(2), Closed(3), NotClosed(4),
                                  YGreater(8, 5)>>
          [] gesture_id = 17 -> <<NotClosed(1), NotClosed(2), Closed(3), Closed(4),
                                  Nearer(8, 12, 10)>>
          [] gesture_id = 18 -> <<Closed(1), Closed(2), Closed(3), Closed(4),
                                  ZGreater(8, 4)>>
          [] gesture_id = 19 -> <<Closed(1), Closed(2), Closed(3), Closed(4),
                                  XGreater(4, 6), XGreater(10, 4)>>
          [] gesture_id = 20 -> <<NotClosed(1), NotClosed(2), Closed(3), Closed(4),
                                  Nearer(8, 12, 15)>>
          [] gesture_id = 21 -> <<NotClosed(1), NotClosed(2), Closed(3), Closed(4),
                                  Farther(8, 12, 15)>>
          [] gesture_id = 22 -> <<NotClosed(1), NotClosed(2), NotClosed(3), Closed(4)>>
          [] gesture_id = 23 -> <<YGreater(8, 7), YGreater(6, 7), Closed(2), Closed(3),
                                  Closed(4)>>
          [] gesture_id = 24 -> <<Closed(1), Closed(2), Closed(3), NotClosed(4),
                                  NotClosed(0)>>
          [] gesture_id = 25 -> <<NotClosed(1), Closed(2), Closed(3), Closed(4),
                                  YGreater(8, 5)>>]

(* Evaluating a conjunction from conjunct k on.  Python's `and` stops at   *)
(* the first false conjunct; a conjunct that is reached and reads a        *)
(* missing landmark raises IndexError.                                     *)
RECURSIVE Evaluate(_, _, _)
Evaluate(lm, tests, k) ==
    IF k > Len(tests) THEN "True"
    ELSE IF ~InRange(lm, tests[k].need) THEN "IndexError"
    ELSE IF ~Holds(lm, tests[k]) THEN "False"
    ELSE Evaluate(lm, tests, k + 1)

\* rule_func(landmarks) for the rule of gesture_id
Call(gesture_id, lm) == Evaluate(lm, rules[gesture_id], 1)

RuleRaises(gesture_id, lm)  == Call(gesture_id, lm) = "IndexError"
\* rule_func(landmarks) returned True
RuleMatches(gesture_id, lm) == Call(gesture_id, lm) = "True"

\* the ids whose rule returns True on lm
Matched(lm) == {g \in GestureIds : RuleMatches(g, lm)}

----------------------------------------------------------------------------
(* _get_gesture_confidence                                                 *)

\* the letter-specific check of gesture_id, as conjuncts; <<>> for the
\* letters that have none
Reinforcement ==
    [gesture_id \in GestureIds |->
        CASE gesture_id = 0  -> <<YBelowBy(4, 3, 10)>>
          [] gesture_id = 1  -> <<Extended(1, 4, 4)>>
          [] gesture_id = 2  -> <<Between(4, 8, 5, 15)>>
          [] gesture_id = 3  -> <<NotClosed(1), Closed(2)>>
          [] gesture_id = 11 -> <<NotClosed(1), XGreater(4, 3)>>
          [] gesture_id = 14 -> <<Between(4, 8, 5, 10)>>
          [] gesture_id = 21 -> <<NotClosed(1), NotClosed(2), Farther(8, 12, 20)>>
          [] gesture_id = 22 -> <<Extended(1, 3, 3)>>
          [] gesture_id = 24 -> <<NotClosed(4), NotClosed(0)>>
          [] OTHER -> <<>>]

HasReinforcement(gesture_id) == gesture_id \in {0, 1, 2, 3, 11, 14, 21, 22, 24}

ReinforcementPasses(gesture_id, lm) ==
    Evaluate(lm, Reinforcement[gesture_id], 1) = "True"

\* confidence after the letter-specific branch (lines 398-459)
Reinforced(lm, gesture_id) ==
    IF ~HasReinforcement(gesture_id) THEN F_0_75
    ELSE IF ReinforcementPasses(gesture_id, lm) THEN FAdd(F_0_75, F_0_15)
    ELSE IF gesture_id = 1 THEN FSub(F_0_75, F_0_3)
    ELSE F_0_75

\* the penalty loop without `other_id != gesture_id`
CompetitorsAndSelf(lm, gesture_id) ==
    {other_id \in GestureIds : RuleMatches(other_id, lm)}

\* the penalty loop with a rule that raises counted like one that matches
CompetitorsUnlessFalse(lm, gesture_id) ==
    {other_id \in GestureIds : other_id /= gesture_id /\ Call(other_id, lm) /= "False"}

\* the penalty loop over the rules after gesture_id's only
CompetitorsAfter(lm, gesture_id) ==
    {other_id \in GestureIds : other_id > gesture_id /\ RuleMatches(other_id, lm)}

\* the other rules that match: a rule that raises is passed over
Competitors(lm, gesture_id) ==
    {other_id \in GestureIds : other_id /= gesture_id /\ RuleMatches(other_id, lm)}

\* confidence -= 0.1, n times
RECURSIVE Penalised(_, _)
Penalised(confidence, n) ==
    IF n = 0 THEN confidence ELSE FSub(Penalised(confidence, n - 1), F_0_1)

\* the centre region with its edges included
CenteredOrOnEdge(lm) ==
    /\ 20 <= lm[0 + 1].x /\ lm[0 + 1].x <= 80
    /\ 20 <= lm[0 + 1].y /\ lm[0 + 1].y <= 80

\* 0.2 < landmarks[0].x < 0.8 and 0.2 < landmarks[0].y < 0.8
Centered(lm) ==
    /\ 20 < lm[0 + 1].x /\ lm[0 + 1].x < 80
    /\ 20 < lm[0 + 1].y /\ lm[0 + 1].y < 80

\* min(confidence, 1.0), without the max
ClampAbove(confidence) == FMin(confidence, F_1_0)

\* max(0.0, min(confidence, 1.0))
Clamp(confidence) == FMax(F_0_0, FMin(confidence, F_1_0))

\* the score before the final clamp
RawConfidence(lm, gesture_id) ==
    LET reinforced == Reinforced(lm, gesture_id)
        penalised  == Penalised(reinforced, Cardinality(Competitors(lm, gesture_id)))
    IN  IF Centered(lm) THEN FAdd(penalised, F_0_05) ELSE penalised

get_gesture_confidence(lm, gesture_id) == Clamp(RawConfidence(lm, gesture_id))

\* _get_gesture_confidence raises IndexError: the letter-specific check reads
\* a missing landmark, or the pose has no landmarks[0]
ConfidenceRaises(lm, gesture_id) ==
    \/ Evaluate(lm, Reinforcement[gesture_id], 1) = "IndexError"
    \/ ~InRange(lm, 0)

----------------------------------------------------------------------------
(* _recognize_gesture: one pass of the loop body, and the final threshold  *)

\* what the body of the for loop does with rule gesture_id
Outcome(lm, gesture_id) ==
    LET returned == Call(gesture_id, lm)
    IN  IF returned = "IndexError" THEN "raised"
        ELSE IF returned = "False" THEN "no match"
        ELSE IF ConfidenceRaises(lm, gesture_id) THEN "raised"
        ELSE "scored"

\* the pass with the first scored letter kept, whatever comes later
PassFirstScored(best, lm, gesture_id) ==
    IF Outcome(lm, gesture_id) /= "scored" \/ best.gesture /= 0 - 1 THEN best
    ELSE [gesture |-> gesture_id, confidence |-> get_gesture_confidence(lm, gesture_id)]

\* best_gesture, best_confidence after the pass for gesture_id
Pass(best, lm, gesture_id) ==
    IF Outcome(lm, gesture_id) /= "scored" THEN best
    ELSE LET confidence == get_gesture_confidence(lm, gesture_id)
         IN  IF FLess(best.confidence, confidence)
             THEN [gesture |-> gesture_id, confidence |-> confidence]
             ELSE best

NoBest == [gesture |-> None, confidence |-> F_0_0]

\* lines 385-390 with the caller's 0.6 for the engine's 0.7
ThresholdAtGate(best) ==
    IF FLess(F_0_6, best.confidence) THEN best ELSE [gesture |-> 0 - 1, confidence |-> F_0_0]

\* lines 385-390
Threshold(best) ==
    IF FLess(F_0_7, best.confidence) THEN best ELSE [gesture |-> None, confidence |-> F_0_0]

\* self.rules.items(): the rules in the order the dict was written
ItemsOrder == [k \in 1 .. NumGestures |-> k - 1]

\* best_gesture, best_confidence after the passes for order[1], ..., order[k]
RECURSIVE Selected(_, _, _)
Selected(lm, order, k) ==
    IF k = 0 THEN NoBest ELSE Pass(Selected(lm, order, k - 1), lm, order[k])

\* _recognize_gesture with the loop running over the rules in the given order
recognize_in_order(lm, order) == Threshold(Selected(lm, order, Len(order)))

recognize_gesture(lm) == recognize_in_order(lm, ItemsOrder)

----------------------------------------------------------------------------
(* The hands shown to the camera.  A hand is built from a few parameters;  *)
(* the detector hands its 21 landmarks (or, malformed, fewer or more) to   *)
(* the engine.  Offsets are in hundredths.                                 *)

MaxGap    == 3
MaxSpread == 2
MaxExtra  == 1

P(x, y, z) == [x |-> x, y |-> y, z |-> z]
Plus(p, q) == [x |-> p.x + q.x, y |-> p.y + q.y, z |-> p.z + q.z]

\* wrist positions: centred, and on the edge x = 0.2 of the centred region
Wrists == <<P(50, 50, 0), P(20, 50, 0)>>

\* wrists on and next to the edges of the centre region, for the scorer
EdgeWrists ==
    <<P(80, 50, 0), P(50, 20, 0), P(50, 80, 0), P(21, 79, 0), P(79, 21, 0), P(19, 50, 0),
      P(50, 81, 0)>>

WristAt(w) == IF w <= Len(Wrists) THEN Wrists[w] ELSE EdgeWrists[w - Len(Wrists)]

(* Index finger shapes, as offsets of landmarks 6, 7, 8 from landmark 5.   *)
(* Both segments 5-6 and 6-7 have squared length 50 in every shape; from   *)
(* shape 1 on the tip 7 turns about 6 towards 5 (squared distance 5-7:     *)
(* 200, 114, 98, 90, 0).  Shape 3 is the equality case                     *)
(* base_to_tip = 0.7 * (base_to_middle + middle_to_tip).                   *)
IndexShapes ==
    << <<P(1, 7, 0),  P(2, 14, 0),   P(2, 19, 0)>>,     \* 0: straight, pointing down
       <<P(1, -7, 0), P(2, -14, 0),  P(2, -19, 0)>>,    \* 1: straight, pointing up
       <<P(1, -7, 0), P(1, -8, -7),  P(1, -3, -7)>>,    \* 2: hooked
       <<P(1, -7, 0), P(0, -7, -7),  P(0, -2, -7)>>,    \* 3: bent to the 0.7 ratio
       <<P(1, -7, 0), P(-4, -7, -5), P(-4, -2, -5)>>,   \* 4: curled
       <<P(1, -7, 0), P(0, 0, 0),    P(0, 0, -3)>> >>   \* 5: folded onto its base

\* middle, ring and pinky: straight up, or curled
FingerShape(closed) ==
    IF closed THEN IndexShapes[4 + 1] ELSE IndexShapes[1 + 1]

\* the index finger of the tight fist: closed, its tip below its joint 7 and
\* its joint 6 left of its base
TuckedIndex == <<P(-5, -3, 0), P(-2, -5, -6), P(-2, -2, -6)>>

ThumbPlaces == {"index", "side", "middle", "across"}

\* the thumb has a gap to the index fingertip only when it is placed there;
\* the fingers spread only when index (shapes 0-3) and middle are extended
Hands ==
    {h \in [wrist : 1 .. Len(Wrists), index : 0 .. Len(IndexShapes) - 1,
            middle : BOOLEAN, ring : BOOLEAN, pinky : BOOLEAN,
            spread : 0 .. MaxSpread, thumb_at : ThumbPlaces, gap : 0 .. MaxGap,
            thumb_up : BOOLEAN, collapsed : {FALSE}] :
        /\ h.thumb_at /= "index" => h.gap = 0
        /\ h.spread > 0 => (h.index <= 3 /\ ~h.middle)}

\* every landmark at the wrist
CollapsedHands ==
    {[wrist |-> w, index |-> 0, middle |-> FALSE, ring |-> FALSE, pinky |-> FALSE,
      spread |-> 0, thumb_at |-> "index", gap |-> 0, thumb_up |-> FALSE,
      collapsed |-> TRUE] : w \in 1 .. Len(Wrists)}

\* the tight fist: every finger closed, the thumb tucked in by the index
\* fingertip, between joint 6 and the finger bases
FistHands ==
    {[wrist |-> w, index |-> 4, middle |-> TRUE, ring |-> TRUE, pinky |-> TRUE,
      spread |-> 0, thumb_at |-> "tucked", gap |-> 0, thumb_up |-> FALSE,
      collapsed |-> FALSE] : w \in 1 .. Len(Wrists)}

\* landmark 4f+1 of finger f
FingerBase(h, f) ==
    Plus(WristAt(h.wrist),
         IF f = 1 THEN P(-10, -30, 0)
         ELSE P(-10 + 8 * (f - 1) + 8 * h.spread, -30, 0))

FingerOffsets(h, f) ==
    CASE f = 1 -> IF h.thumb_at = "tucked" THEN TuckedIndex ELSE IndexShapes[h.index + 1]
      [] f = 2 -> FingerShape(h.middle)
      [] f = 3 -> FingerShape(h.ring)
      [] f = 4 -> FingerShape(h.pinky)

\* landmark 4f+1+k of finger f, k = 0..3
FingerPoint(h, f, k) ==
    IF k = 0 THEN FingerBase(h, f)
    ELSE Plus(FingerBase(h, f), FingerOffsets(h, f)[k])

\* landmark 4: at the index fingertip or gap * 0.03 below it, out to the
\* side, by the middle finger's joint 10, or far across the frame
ThumbTip(h) ==
    CASE h.thumb_at = "index"  -> Plus(FingerPoint(h, 1, 3), P(0, 3 * h.gap, 0))
      [] h.thumb_at = "side"   -> Plus(WristAt(h.wrist), P(-25, -18, -20))
      [] h.thumb_at = "middle" -> Plus(FingerPoint(h, 2, 1), P(-3, 0, -2))
      [] h.thumb_at = "across" -> Plus(WristAt(h.wrist), P(1000, -1000, 1000))
      [] h.thumb_at = "tucked" -> Plus(FingerPoint(h, 1, 3), P(0, 2, -2))

\* landmark 3: below the tip when the thumb points up, above it otherwise
ThumbJoint(h) ==
    IF h.thumb_up THEN Plus(ThumbTip(h), P(-2, 12, 0)) ELSE Plus(ThumbTip(h), P(2, -4, 0))

\* Python's landmarks[i] of the whole hand
HandPoint(h, i) ==
    IF h.collapsed \/ i = 0 THEN WristAt(h.wrist)
    ELSE IF i = 1 THEN Plus(WristAt(h.wrist), P(-12, -8, 0))
    ELSE IF i = 2 THEN Plus(WristAt(h.wrist), P(-16, -14, 0))
    ELSE IF i = 3 THEN ThumbJoint(h)
    ELSE IF i = 4 THEN ThumbTip(h)
    ELSE IF i <= 20 THEN FingerPoint(h, (i - 1) \div 4, (i - 1) % 4)
    ELSE P(0, 0, 0)

\* the first count landmarks of the hand (count > 21: padded with extras)
HandLandmarks(h, count) == [i \in 1 .. count |-> HandPoint(h, i - 1)]

\* malformed inputs: too few landmarks, or up to MaxExtra too many
BadCounts == {0, 12, 20} \cup (NumLandmarks + 1 .. NumLandmarks + MaxExtra)

BadHands ==
    {h \in Hands : /\ h.wrist = 1 /\ h.spread = 0
                   /\ h.ring = h.middle /\ h.pinky = h.middle
                   /\ h.thumb_at \in {"index", "across"}}

\* some of the hands, and the hand with every landmark at the wrist, with the
\* wrist in the centre, on the edges and next to them
EdgeHands ==
    LET places == 1 .. Len(Wrists) + Len(EdgeWrists)
    IN  {[h EXCEPT !.wrist = w] : h \in BadHands \cup CollapsedHands, w \in places}

\* the hands one parameter away from h
Moves(h) ==
    {m \in
        {[h EXCEPT !.index = i] : i \in {h.index - 1, h.index + 1}}
        \cup {[h EXCEPT !.spread = s] : s \in {h.spread - 1, h.spread + 1}}
        \cup {[h EXCEPT !.gap = g] : g \in {h.gap - 1, h.gap + 1}}
        \cup {[h EXCEPT !.middle = ~h.middle], [h EXCEPT !.ring = ~h.ring],
              [h EXCEPT !.pinky = ~h.pinky], [h EXCEPT !.thumb_up = ~h.thumb_up]}
        \cup {[h EXCEPT !.wrist = w] : w \in 1 .. Len(Wrists)}
        \cup {[h EXCEPT !.thumb_at = a, !.gap = 0] : a \in ThumbPlaces} :
        m \in Hands /\ m /= h}

----------------------------------------------------------------------------
(* The recognizer at work: one frame after another, _recognize_gesture     *)
(* running its loop over the rules one pass at a time.                     *)

VARIABLES
    hand,             \* the hand in front of the camera
    landmarks,        \* the argument of _recognize_gesture
    pc,               \* "loop": in the for loop; "done": returned
    rule_index,       \* the next gesture_id of self.rules.items()
    best_gesture,     \* local best_gesture
    best_confidence,  \* local best_confidence
    logged,           \* the gesture ids of the logger.error calls
    result,           \* the pair returned
    self_rules,       \* the keys of self.rules, in the order of items()
    self_gestures,    \* the names in self.gestures, by gesture id
    calls,            \* the number of _recognize_gesture calls process_frame has made
    response,         \* the response dict of process_frame
    other             \* the locals of a second call running at the same time

\* the web application of app.py around the recognizer
VARIABLES
    mediapipe_available,  \* self.mediapipe_available of the SignLanguageRecognizer
    frame,                \* the decoded frame of the /process_frame request
    sign,                 \* the pair process_image returned
    sign_language,        \* results['sign_language'] of the /process_frame response
    gestures,             \* the gestures table: the name of each row, in id order
    practice_progress,    \* the rows of the practice_progress table
    recognition_sessions, \* the number of rows of the recognition_sessions table
    saved,                \* the data of the last /save_recognition request served
    workers,              \* the calls of initialize_default_gestures under way
    init_calls            \* the number of initialize_default_gestures calls begun

\* what the /process_frame route works on
route_state == <<mediapipe_available, frame, sign, sign_language>>

\* the tables of models_db.py
database == <<gestures, practice_progress, recognition_sessions>>

\* the state app.py keeps around the gesture recognizer
web_app == <<route_state, database, saved, workers, init_calls>>

vars == <<hand, landmarks, pc, rule_index, best_gesture, best_confidence, logged, result,
          self_rules, self_gestures, calls, response, other, web_app>>

\* self.gestures[gesture_id]['name']
Letters ==
    <<"A", "B", "C", "D", "E", "F", "G", "H", "I", "J", "K", "L", "M",
      "N", "O", "P", "Q", "R", "S", "T", "U", "V", "W", "X", "Y", "Z">>

\* the response dict as process_frame prepares it ("None" is Python's None;
\* the landmark list and the annotated image are left out)
NoResponse ==
    [hand_detected |-> FALSE, gesture_detected |-> FALSE, gesture |-> "None",
     confidence |-> F_0_0]

\* no second call is running
NoCall ==
    [landmarks |-> <<>>, pc |-> "none", rule_index |-> 0,
     best |-> NoBest, logged |-> {}, result |-> NoBest]

\* no frame has been decoded yet
NoFrame == [contours |-> 0, area |-> 0, hand |-> <<>>]

\* recognized_text = "", confidence = 0.0: no sign
NoSign == [text |-> "", confidence |-> F_0_0]

\* the results dict has no 'sign_language' key
NoEntry == [present |-> FALSE, text |-> "", confidence |-> F_0_0]

\* no /save_recognition request has been served
NoSave == [user_id |-> 0, gesture_name |-> "", success |-> FALSE]

\* the threads and processes that can run initialize_default_gestures
Workers == {1, 2}

\* a worker that is not in initialize_default_gestures
Idle == [pc |-> "idle", index |-> 0, pending |-> <<>>]

\* start-up is over: db.create_all() and initialize_default_gestures() have
\* run on an empty database, and nothing has been saved
DatabaseReady ==
    /\ gestures = Letters
    /\ practice_progress = {}
    /\ recognition_sessions = 0
    /\ saved = NoSave
    /\ workers = [w \in Workers |-> Idle]
    /\ init_calls = 0

\* the application has started and no request has been served
NoRequest ==
    /\ mediapipe_available = TRUE
    /\ frame = NoFrame
    /\ sign = NoSign
    /\ sign_language = NoEntry
    /\ DatabaseReady

\* the recognizer as __init__ leaves it
Constructed ==
    /\ self_rules = ItemsOrder
    /\ self_gestures = Letters

\* the landmarks rewritten in place, relative to the wrist
LandmarksRecentred ==
    /\ landmarks' = [i \in DOMAIN landmarks |->
                         [x |-> landmarks[i].x - landmarks[1].x,
                          y |-> landmarks[i].y - landmarks[1].y,
                          z |-> landmarks[i].z - landmarks[1].z]]
    /\ UNCHANGED <<self_rules, self_gestures>>

\* _recognize_gesture and the scorer assign to locals only: not to the
\* argument, not to self.rules, not to self.gestures
ArgumentAndTablesKept == UNCHANGED <<landmarks, self_rules, self_gestures>>

\* the call with best_gesture and best_confidence kept from the call before
EnterKeepingBest(h, lm) ==
    /\ hand' = h
    /\ landmarks' = lm
    /\ pc' = "loop"
    /\ rule_index' = 0
    /\ UNCHANGED <<best_gesture, best_confidence>>
    /\ logged' = {}
    /\ result' = NoBest

\* the call _recognize_gesture(lm) has just begun
Enter(h, lm) ==
    /\ hand' = h
    /\ landmarks' = lm
    /\ pc' = "loop"
    /\ rule_index' = 0
    /\ best_gesture' = None
    /\ best_confidence' = F_0_0
    /\ logged' = {}
    /\ result' = NoBest

Init ==
    /\ \/ \E h \in Hands \cup CollapsedHands \cup FistHands :
              /\ hand = h
              /\ landmarks = HandLandmarks(h, NumLandmarks)
       \/ \E h \in BadHands, count \in BadCounts :
              /\ hand = h
              /\ landmarks = HandLandmarks(h, count)
    /\ pc = "loop"
    /\ rule_index = 0
    /\ best_gesture = None
    /\ best_confidence = F_0_0
    /\ logged = {}
    /\ result = NoBest
    /\ Constructed
    /\ calls = 0 /\ response = NoResponse /\ other = NoCall /\ NoRequest

\* the rule, or the scoring of its match, raises: the except clause logs it
RuleRaised(outcome) ==
    /\ outcome = "raised"
    /\ logged' = logged \cup {rule_index}
    /\ UNCHANGED <<best_gesture, best_confidence>>

\* rule_func(landmarks) is False
RuleFailed(outcome) ==
    /\ outcome = "no match"
    /\ UNCHANGED <<best_gesture, best_confidence, logged>>

\* the update with >= for >
RuleMatchedLastWins(outcome) ==
    /\ outcome = "scored"
    /\ LET confidence == get_gesture_confidence(landmarks, rule_index)
       IN  IF ~FLess(confidence, best_confidence)
           THEN best_gesture' = rule_index /\ best_confidence' = confidence
           ELSE UNCHANGED <<best_gesture, best_confidence>>
    /\ UNCHANGED logged

\* rule_func(landmarks) is True: score it, keep it if strictly better
RuleMatched(outcome) ==
    /\ outcome = "scored"
    /\ LET confidence == get_gesture_confidence(landmarks, rule_index)
       IN  IF FLess(best_confidence, confidence)
           THEN best_gesture' = rule_index /\ best_confidence' = confidence
           ELSE UNCHANGED <<best_gesture, best_confidence>>
    /\ UNCHANGED logged

\* one pass of `for gesture_id, rule_func in self.rules.items()`
LoopPass ==
    /\ pc = "loop" /\ rule_index < NumGestures
    /\ LET outcome == Outcome(landmarks, rule_index)
       IN  RuleRaised(outcome) \/ RuleFailed(outcome) \/ RuleMatched(outcome)
    /\ rule_index' = rule_index + 1
    /\ ArgumentAndTablesKept
    /\ UNCHANGED <<hand, pc, result, calls, response, other, web_app>>

\* after the loop: the 0.7 threshold
Return ==
    /\ pc = "loop" /\ rule_index = NumGestures
    /\ result' = Threshold([gesture |-> best_gesture, confidence |-> best_confidence])
    /\ pc' = "done"
    /\ ArgumentAndTablesKept
    /\ UNCHANGED <<hand, rule_index, best_gesture, best_confidence, logged,
                   calls, response, other, web_app>>

\* the next frame: the hand has moved, and is classified afresh
NextFrame ==
    /\ pc = "done"
    /\ Len(landmarks) = NumLandmarks /\ ~hand.collapsed
    /\ \E h \in Moves(hand) : Enter(h, HandLandmarks(h, NumLandmarks))
    /\ UNCHANGED <<self_rules, self_gestures, calls, response, other, web_app>>

Next == LoopPass \/ Return \/ NextFrame

Spec == Init /\ [][Next]_vars

----------------------------------------------------------------------------
(* The scorer called on its own: _get_gesture_confidence(landmarks,        *)
(* gesture_id) for one letter id after another on a 21-landmark hand,      *)
(* whether or not the letter's rule matches.  Here rule_index is the next  *)
(* gesture_id and result is the last gesture_id with the value returned.   *)

ScoreInit ==
    /\ \E h \in Hands \cup CollapsedHands :
           /\ hand = h
           /\ landmarks = HandLandmarks(h, NumLandmarks)
    /\ pc = "score"
    /\ rule_index = 0
    /\ best_gesture = None
    /\ best_confidence = F_0_0
    /\ logged = {}
    /\ result = NoBest
    /\ Constructed
    /\ calls = 0 /\ response = NoResponse /\ other = NoCall /\ NoRequest

Score ==
    /\ pc = "score" /\ rule_index < NumGestures
    /\ result' = [gesture |-> rule_index,
                  confidence |-> get_gesture_confidence(landmarks, rule_index)]
    /\ rule_index' = rule_index + 1
    /\ ArgumentAndTablesKept
    /\ UNCHANGED <<hand, pc, best_gesture, best_confidence, logged,
                   calls, response, other, web_app>>

ScoreNext == Score

ScoreSpec == ScoreInit /\ [][ScoreNext]_vars

\* the same calls on the hands placed about the frame
CenterInit ==
    /\ \E h \in EdgeHands :
           /\ hand = h
           /\ landmarks = HandLandmarks(h, NumLandmarks)
    /\ pc = "score"
    /\ rule_index = 0
    /\ best_gesture = None
    /\ best_confidence = F_0_0
    /\ logged = {}
    /\ result = NoBest
    /\ Constructed
    /\ calls = 0 /\ response = NoResponse /\ other = NoCall /\ NoRequest

CenterSpec == CenterInit /\ [][ScoreNext]_vars

----------------------------------------------------------------------------
(* process_frame, one frame after another on the same recognizer.  The     *)
(* hand tracker finds no hand, or one hand of 21 landmarks; with a hand    *)
(* the engine runs and its answer goes through the caller's own gate.      *)

\* classifications in one run
MaxCalls == 2

\* results.multi_hand_landmarks is empty
NoHand == [collapsed |-> FALSE]

\* the hands the next frame can show
NextHands == IF pc = "responded" /\ response.hand_detected THEN Moves(hand) ELSE Hands

FrameInit ==
    /\ hand = NoHand
    /\ landmarks = <<>>
    /\ pc = "idle"
    /\ rule_index = 0
    /\ best_gesture = None
    /\ best_confidence = F_0_0
    /\ logged = {}
    /\ result = NoBest
    /\ Constructed
    /\ calls = 0 /\ response = NoResponse /\ other = NoCall /\ NoRequest

\* lines 321-348: a hand is found and _recognize_gesture is called on it
HandFrame ==
    /\ pc \in {"idle", "responded"} /\ calls < MaxCalls
    /\ \E h \in NextHands : Enter(h, HandLandmarks(h, NumLandmarks))
    /\ response' = [NoResponse EXCEPT !.hand_detected = TRUE]
    /\ UNCHANGED <<self_rules, self_gestures, calls, other, web_app>>

\* the gate with the test on the pair left out
GateOpen ==
    /\ pc = "done"
    /\ response' = [response EXCEPT !.gesture_detected = TRUE,
                                    !.gesture = IF result.gesture = None THEN "None"
                                                ELSE self_gestures[result.gesture + 1],
                                    !.confidence = result.confidence]
    /\ pc' = "responded"
    /\ calls' = calls + 1
    /\ UNCHANGED <<hand, landmarks, rule_index, best_gesture, best_confidence, logged,
                   result, self_rules, self_gestures, other, web_app>>

\* lines 349-359: the caller's gate on the pair returned, and the response
Gate ==
    /\ pc = "done"
    /\ response' = IF result.gesture /= None /\ FLess(F_0_6, result.confidence)
                   THEN [response EXCEPT !.gesture_detected = TRUE,
                                         !.gesture = self_gestures[result.gesture + 1],
                                         !.confidence = result.confidence]
                   ELSE response
    /\ pc' = "responded"
    /\ calls' = calls + 1
    /\ UNCHANGED <<hand, landmarks, rule_index, best_gesture, best_confidence, logged,
                   result, self_rules, self_gestures, other, web_app>>

\* no hand is found: the prepared response is returned as it is
NoHandFrame ==
    /\ pc \in {"idle", "responded"}
    /\ hand' = NoHand
    /\ landmarks' = <<>>
    /\ pc' = "responded"
    /\ rule_index' = 0
    /\ best_gesture' = None
    /\ best_confidence' = F_0_0
    /\ logged' = {}
    /\ result' = NoBest
    /\ response' = NoResponse
    /\ UNCHANGED <<self_rules, self_gestures, calls, other, web_app>>

FrameNext == HandFrame \/ LoopPass \/ Return \/ Gate \/ NoHandFrame

FrameSpec == FrameInit /\ [][FrameNext]_vars

----------------------------------------------------------------------------
(* Two calls of _recognize_gesture on the same recognizer at the same time, *)
(* each on its own argument, their loop passes interleaved in every way.    *)
(* The first call runs in the variables above, the second in `other`.      *)

\* the hands the two calls are given: a fist, a flat hand and four between
PairHands ==
    {h \in Hands : /\ h.wrist = 1 /\ h.spread = 0 /\ h.ring = h.pinky
                   /\ h.index \in {0, Len(IndexShapes) - 1}
                   /\ h.thumb_at = "side" /\ ~h.thumb_up}

PairInit ==
    \E h1 \in PairHands : \E h2 \in PairHands \ {h1} :
        /\ hand = h1
        /\ landmarks = HandLandmarks(h1, NumLandmarks)
        /\ pc = "loop"
        /\ rule_index = 0
        /\ best_gesture = None
        /\ best_confidence = F_0_0
        /\ logged = {}
        /\ result = NoBest
        /\ Constructed
        /\ calls = 0 /\ response = NoResponse
        /\ other = [NoCall EXCEPT !.landmarks = HandLandmarks(h2, NumLandmarks),
                                  !.pc = "loop"]
        /\ NoRequest

\* the pass of the second call with best_gesture and best_confidence kept in
\* one place for both calls
OtherPassSharedBest ==
    /\ other.pc = "loop" /\ other.rule_index < NumGestures
    /\ LET best == Pass([gesture |-> best_gesture, confidence |-> best_confidence],
                        other.landmarks, other.rule_index)
       IN  best_gesture' = best.gesture /\ best_confidence' = best.confidence
    /\ other' = [other EXCEPT !.rule_index = @ + 1]
    /\ UNCHANGED <<hand, landmarks, pc, rule_index, logged, result,
                   self_rules, self_gestures, calls, response, web_app>>

\* one pass of the for loop in the second call
OtherPass ==
    /\ other.pc = "loop" /\ other.rule_index < NumGestures
    /\ other' = [other EXCEPT
                    !.best = Pass(@, other.landmarks, other.rule_index),
                    !.logged = IF Outcome(other.landmarks, other.rule_index) = "raised"
                               THEN @ \cup {other.rule_index} ELSE @,
                    !.rule_index = @ + 1]
    /\ UNCHANGED <<hand, landmarks, pc, rule_index, best_gesture, best_confidence,
                   logged, result, self_rules, self_gestures, calls, response, web_app>>

\* the threshold and the return of the second call
OtherReturn ==
    /\ other.pc = "loop" /\ other.rule_index = NumGestures
    /\ other' = [other EXCEPT !.result = Threshold(other.best), !.pc = "done"]
    /\ UNCHANGED <<hand, landmarks, pc, rule_index, best_gesture, best_confidence,
                   logged, result, self_rules, self_gestures, calls, response, web_app>>

PairNext == LoopPass \/ Return \/ OtherPass \/ OtherReturn

PairSpec == PairInit /\ [][PairNext]_vars

----------------------------------------------------------------------------
(* The /process_frame route of app.py: the frame goes to the gesture        *)
(* recognizer, whose response dict is `response`, and then to the sign      *)
(* language recognizer, whose pair may add the 'sign_language' entry.       *)
(* A frame is what the sign language recognizer sees of it: the skin        *)
(* coloured contours (their number and the area of the largest, in pixels)  *)
(* and, through MediaPipe, the y of the wrist, of the index tip and of the  *)
(* middle tip in hundredths (<<>> when no hand is found).                   *)

\* self.asl_mapping
asl_mapping ==
    [letter_index \in 0..9 |->
        <<"A", "B", "C", "D", "E", "F", "G", "H", "I", "J">>[letter_index + 1]]

\* the frames of the requests
Frames ==
    {[contours |-> c, area |-> IF c = 0 THEN 0 ELSE a, hand |-> h] :
        c \in {0, 1}, a \in {4999, 5000, 5001},
        h \in {<<>>} \cup {[wrist_y |-> w, index_tip_y |-> i, middle_tip_y |-> m] :
                               w \in {52, 88}, i \in {30, 80}, m \in {30, 80}}}

\* what gesture_recognizer.process_frame can answer
FrameResponses ==
    {NoResponse, [NoResponse EXCEPT !.hand_detected = TRUE]}
    \cup {[hand_detected |-> TRUE, gesture_detected |-> TRUE, gesture |-> "B",
           confidence |-> F_0_75]}

\* _fallback_detection, letter_index being what random.randint(0, 9) gives
fallback_detection(image, letter_index) ==
    IF image.contours = 0 THEN NoSign
    ELSE IF image.area < 5000 THEN NoSign
    ELSE [text |-> asl_mapping[letter_index], confidence |-> F_0_5]

\* the heuristic of process_image on the hand MediaPipe found
heuristic(h) ==
    IF h.index_tip_y < h.wrist_y - 10 THEN 0
    ELSE IF h.middle_tip_y < h.wrist_y - 15 THEN 1
    ELSE 2

\* process_image
process_image(available, image, letter_index) ==
    IF ~available THEN fallback_detection(image, letter_index)
    ELSE IF image.hand = <<>> THEN NoSign
    ELSE [text |-> asl_mapping[heuristic(image.hand)], confidence |-> F_0_7]

\* the route's test with >= in the place of >
SignDetectedFromHalf(s) == s.text /= "" /\ ~FLess(s.confidence, F_0_5)

\* `if sign_text and confidence > 0.5`
SignDetected(s) == s.text /= "" /\ FLess(F_0_5, s.confidence)

RouteInit ==
    /\ hand = NoHand
    /\ landmarks = <<>>
    /\ pc = "idle"
    /\ rule_index = 0
    /\ best_gesture = None
    /\ best_confidence = F_0_0
    /\ logged = {}
    /\ result = NoBest
    /\ Constructed
    /\ calls = 0 /\ response = NoResponse /\ other = NoCall
    /\ mediapipe_available \in BOOLEAN
    /\ frame = NoFrame
    /\ sign = NoSign
    /\ sign_language = NoEntry
    /\ DatabaseReady

\* one /process_frame request with a frame that decodes
ProcessFrameRoute ==
    /\ \E f \in Frames, r \in FrameResponses, letter_index \in 0..9 :
           LET s == process_image(mediapipe_available, f, letter_index)
           IN  /\ frame' = f
               /\ response' = r
               /\ sign' = s
               /\ sign_language' = IF SignDetected(s)
                                   THEN [present |-> TRUE, text |-> s.text,
                                         confidence |-> s.confidence]
                                   ELSE NoEntry
    /\ UNCHANGED <<hand, landmarks, pc, rule_index, best_gesture, best_confidence,
                   logged, result, self_rules, self_gestures, calls, other,
                   mediapipe_available, database, saved, workers, init_calls>>

RouteNext == ProcessFrameRoute

RouteSpec == RouteInit /\ [][RouteNext]_vars

----------------------------------------------------------------------------
(* The /save_recognition route of app.py, one request after another.  A     *)
(* request that is answered 400 or 404, or whose commit raises and is       *)
(* rolled back, leaves the tables as they were and is no step.              *)

\* /save_recognition requests in one run
MaxSaves == 20

\* session.get('user_id'): 0 when the session has none
SessionUsers == {0, 1}

\* data.get('gesture_name')
SaveNames == {"A", "B", "?"}

\* Gesture.query.filter_by(name=gesture_name).first(): its id, 0 for None
GestureId(gesture_name) ==
    IF \E id \in DOMAIN gestures : gestures[id] = gesture_name
    THEN CHOOSE id \in DOMAIN gestures :
             /\ gestures[id] = gesture_name
             /\ \A earlier \in 1..(id - 1) : gestures[earlier] /= gesture_name
    ELSE 0

\* PracticeProgress.query.filter_by(user_id=user_id, gesture_id=gesture.id)
ProgressOf(user_id, gesture_id) ==
    {p \in practice_progress : p.user_id = user_id /\ p.gesture_id = gesture_id}

\* the new record left to the column default
ColumnDefault(success) == 0

\* proficiency_level=10 if success else 5
FirstLevel(success) == IF success THEN 10 ELSE 5

\* min(100, practice_progress.proficiency_level + 5)
Raised(proficiency_level) ==
    IF proficiency_level + 5 < 100 THEN proficiency_level + 5 ELSE 100

\* lines 175-197: the practice progress of a logged-in user
UpdateProgress(user_id, gesture_id, success) ==
    LET found == ProgressOf(user_id, gesture_id)
    IN  IF found /= {}
        THEN LET p == CHOOSE q \in found : TRUE
             IN  (practice_progress \ {p}) \cup
                 {[p EXCEPT !.times_practiced = @ + 1,
                            !.proficiency_level = IF success THEN Raised(@) ELSE @]}
        ELSE practice_progress \cup
             {[user_id |-> user_id, gesture_id |-> gesture_id,
               proficiency_level |-> FirstLevel(success), times_practiced |-> 1]}

SaveInit ==
    /\ hand = NoHand
    /\ landmarks = <<>>
    /\ pc = "idle"
    /\ rule_index = 0
    /\ best_gesture = None
    /\ best_confidence = F_0_0
    /\ logged = {}
    /\ result = NoBest
    /\ Constructed
    /\ calls = 0 /\ response = NoResponse /\ other = NoCall
    /\ NoRequest

\* one /save_recognition request that is committed
SaveRecognition ==
    /\ recognition_sessions < MaxSaves
    /\ \E user_id \in SessionUsers, gesture_name \in SaveNames, success \in BOOLEAN :
           /\ GestureId(gesture_name) /= 0
           /\ saved' = [user_id |-> user_id, gesture_name |-> gesture_name,
                        success |-> success]
           /\ recognition_sessions' = recognition_sessions + 1
           /\ practice_progress' =
                  IF user_id /= 0
                  THEN UpdateProgress(user_id, GestureId(gesture_name), success)
                  ELSE practice_progress
    /\ UNCHANGED <<hand, landmarks, pc, rule_index, best_gesture, best_confidence,
                   logged, result, self_rules, self_gestures, calls, response, other,
                   route_state, gestures, workers, init_calls>>

SaveNext == SaveRecognition

SaveSpec == SaveInit /\ [][SaveNext]_vars

----------------------------------------------------------------------------
(* initialize_default_gestures, called at the start of each process and by  *)
(* each /admin/update_database request, on a database that db.create_all()  *)
(* found empty.  Each call runs in a session and a transaction of its own:  *)
(* its queries see the rows committed so far and the rows it has added      *)
(* itself (autoflush), and its rows are seen by the others after its        *)
(* commit.  The gestures table has no unique constraint on name.            *)

\* calls of initialize_default_gestures in one run
MaxInits == 3

\* the name of each entry of default_gestures
default_gestures == Letters

\* Gesture.query.filter_by(name=name).first() in the session of worker w
Exists(w, name) ==
    \/ \E id \in DOMAIN gestures : gestures[id] = name
    \/ \E k \in DOMAIN workers[w].pending : workers[w].pending[k] = name

InitInit ==
    /\ hand = NoHand
    /\ landmarks = <<>>
    /\ pc = "idle"
    /\ rule_index = 0
    /\ best_gesture = None
    /\ best_confidence = F_0_0
    /\ logged = {}
    /\ result = NoBest
    /\ Constructed
    /\ calls = 0 /\ response = NoResponse /\ other = NoCall
    /\ mediapipe_available = TRUE
    /\ frame = NoFrame
    /\ sign = NoSign
    /\ sign_language = NoEntry
    /\ gestures = <<>>
    /\ practice_progress = {}
    /\ recognition_sessions = 0
    /\ saved = NoSave
    /\ workers = [w \in Workers |-> Idle]
    /\ init_calls = 0

\* a worker enters initialize_default_gestures
BeginInitialize ==
    /\ init_calls < MaxInits
    /\ \E w \in Workers :
           /\ workers[w].pc = "idle"
           /\ workers' = [workers EXCEPT ![w] = [pc |-> "for", index |-> 0,
                                                 pending |-> <<>>]]
    /\ init_calls' = init_calls + 1
    /\ UNCHANGED <<hand, landmarks, pc, rule_index, best_gesture, best_confidence,
                   logged, result, self_rules, self_gestures, calls, response, other,
                   route_state, database, saved>>

\* one pass of `for gesture_data in default_gestures`
CheckGesture ==
    /\ \E w \in Workers :
           /\ workers[w].pc = "for" /\ workers[w].index < Len(default_gestures)
           /\ LET name == default_gestures[workers[w].index + 1]
              IN  workers' = [workers EXCEPT
                                 ![w].pending = IF Exists(w, name) THEN @
                                                ELSE Append(@, name),
                                 ![w].index = @ + 1]
    /\ UNCHANGED <<hand, landmarks, pc, rule_index, best_gesture, best_confidence,
                   logged, result, self_rules, self_gestures, calls, response, other,
                   route_state, database, saved, init_calls>>

\* db.session.commit() after the loop
CommitGestures ==
    /\ \E w \in Workers :
           /\ workers[w].pc = "for" /\ workers[w].index = Len(default_gestures)
           /\ gestures' = gestures \o workers[w].pending
           /\ workers' = [workers EXCEPT ![w] = Idle]
    /\ UNCHANGED <<hand, landmarks, pc, rule_index, best_gesture, best_confidence,
                   logged, result, self_rules, self_gestures, calls, response, other,
                   route_state, practice_progress, recognition_sessions, saved,
                   init_calls>>

InitNext == BeginInitialize \/ CheckGesture \/ CommitGestures

InitSpec == InitInit /\ [][InitNext]_vars

----------------------------------------------------------------------------
(* Properties.  They are stated of the call that has returned (pc = "done") *)
(* and of its argument.                                                    *)

Returned == pc = "done"
WellFormed == Len(landmarks) = NumLandmarks

\* a confidence to the nearest hundredth (0.7000000000000001 is 70)
Cents(c) == ((c.hi \div 128) * 100 + 524288) \div 1048576

\* the reinforcement step of the scorer in hundredths: +15, -30 (B) or 0
BonusCents(lm, gesture_id) ==
    IF ~HasReinforcement(gesture_id) THEN 0
    ELSE IF ReinforcementPasses(gesture_id, lm) THEN 15
    ELSE IF gesture_id = 1 THEN 0 - 30
    ELSE 0

\* the score of a letter in exact decimal arithmetic, in hundredths, when the
\* rules in matched are the ones that return True
DecimalScore(lm, gesture_id, matched) ==
    LET raw == 75 + BonusCents(lm, gesture_id)
                  - 10 * Cardinality(matched \ {gesture_id})
                  + (IF Centered(lm) THEN 5 ELSE 0)
    IN  IF raw < 0 THEN 0 ELSE IF raw > 100 THEN 100 ELSE raw

\* C1: for every 21-landmark input the call returns a letter with confidence
\* > 0.7 or exactly (None, 0.0), and it returns (None, 0.0) whenever no rule
\* matches or the best matched score, in exact decimal arithmetic, is <= 0.70.
C1_AboveThresholdOrNone ==
    (Returned /\ WellFormed) =>
        LET matched == Matched(landmarks)
        IN  /\ \/ result.gesture \in GestureIds /\ FLess(F_0_7, result.confidence)
               \/ result.gesture = None /\ result.confidence = F_0_0
            /\ (\A g \in matched : DecimalScore(landmarks, g, matched) <= 70)
                   => (result.gesture = None /\ result.confidence = F_0_0)

\* C2: a returned letter's rule matched, its confidence is the maximum of
\* _get_gesture_confidence over the letters whose rule matched, and no earlier
\* matched letter has that same confidence.
C2_MaximumEarliestWins ==
    (Returned /\ result.gesture /= None) =>
        /\ RuleMatches(result.gesture, landmarks)
        /\ result.confidence = get_gesture_confidence(landmarks, result.gesture)
        /\ \A g \in Matched(landmarks) \ {result.gesture} :
               ~ConfidenceRaises(landmarks, g) =>
                   LET confidence == get_gesture_confidence(landmarks, g)
                   IN  /\ ~FLess(result.confidence, confidence)
                       /\ confidence = result.confidence => result.gesture < g

\* C2 witness: B is returned while the later letter C matched with the same
\* confidence
C2_TieWonByEarlier ==
    /\ Returned /\ WellFormed /\ result.gesture = 1
    /\ RuleMatches(2, landmarks)
    /\ get_gesture_confidence(landmarks, 2) = result.confidence

\* C3: _get_gesture_confidence is in [0.0, 1.0] for each of the 26 letter ids
\* on every 21-landmark input, whether or not the letter's rule matched.
C3_ConfidenceInUnitInterval ==
    (pc = "score" /\ result.gesture /= None) =>
        /\ ~FLess(result.confidence, F_0_0)
        /\ ~FLess(F_1_0, result.confidence)

\* C3 witness: a letter whose rule did not match and whose score before the
\* clamp is negative
C3_ClampedFromBelow ==
    /\ pc = "score" /\ result.gesture /= None /\ result.confidence = F_0_0
    /\ ~RuleMatches(result.gesture, landmarks)
    /\ FLess(RawConfidence(landmarks, result.gesture), F_0_0)

\* C4: the thumb is closed iff landmark 4's y is greater than landmark 3's y.
C4_ThumbClosedIffTipBelowJoint ==
    InRange(landmarks, 4) =>
        (is_finger_closed(landmarks, 0) <=> landmarks[4 + 1].y > landmarks[3 + 1].y)

\* the squared distances base-tip, base-middle, middle-tip of finger f
Reach(lm, f) ==
    [tip    |-> get_distance2(lm[4 * f + 1 + 1], lm[4 * f + 3 + 1]),
     middle |-> get_distance2(lm[4 * f + 1 + 1], lm[4 * f + 2 + 1]),
     rest   |-> get_distance2(lm[4 * f + 2 + 1], lm[4 * f + 3 + 1])]

\* C5: fingers 1-4 are closed iff dist(base, tip) < 0.7 * (dist(base, mid) +
\* dist(mid, tip)), equality being not closed; as the index finger curls with
\* its segment lengths fixed it is open up to and at the 0.7 ratio (shape 3)
\* and closed from there on.  (Where both segments have the same length s the bound is
\* dist(base, tip)^2 < 1.96 s^2.)
C5_ClosedBelowRatio ==
    /\ \A f \in 1 .. 4 :
           InRange(landmarks, 4 * f + 3) =>
               LET d == Reach(landmarks, f)
               IN  d.middle = d.rest =>
                       (is_finger_closed(landmarks, f) <=> 100 * d.tip < 196 * d.middle)
    /\ (WellFormed /\ ~hand.collapsed) =>
           (is_finger_closed(landmarks, 1) <=> hand.index > 3)

\* C5 witness: the index finger bent exactly to the ratio, and not closed
C5_LevelNotClosed ==
    /\ WellFormed /\ ~hand.collapsed /\ hand.index = 3
    /\ LET d == Reach(landmarks, 1)
       IN  d.middle = d.rest /\ d.middle > 0 /\ 100 * d.tip = 196 * d.middle
    /\ ~is_finger_closed(landmarks, 1)

\* the letter is scored alike on both poses before the penalty: same
\* reinforcement, same centering
ScoredAlike(lm1, lm2, gesture_id) ==
    /\ BonusCents(lm1, gesture_id) = BonusCents(lm2, gesture_id)
    /\ Centered(lm1) = Centered(lm2)

\* a pose one move away on which the letter matches together with others
CoMatchingMoves(gesture_id) ==
    {h \in Moves(hand) :
        LET lm2 == HandLandmarks(h, NumLandmarks)
        IN  /\ RuleMatches(gesture_id, lm2)
            /\ Matched(lm2) /= {gesture_id}
            /\ ScoredAlike(landmarks, lm2, gesture_id)}

\* C6: the score of a matched letter is lowered by 0.1 for each other letter
\* whose rule matches and by nothing for the letter itself; a pose on which
\* the letter matches together with others gives it a strictly lower
\* confidence than a pose, scored alike otherwise, on which it matches alone.
C6_PenaltyPerCompetitor ==
    (Returned /\ WellFormed /\ ~hand.collapsed) =>
        LET matched == Matched(landmarks)
        IN  \A X \in matched :
                LET confidence == get_gesture_confidence(landmarks, X)
                IN  /\ Cents(confidence) = DecimalScore(landmarks, X, matched)
                    /\ matched = {X} =>
                           \A h \in CoMatchingMoves(X) :
                               FLess(get_gesture_confidence(
                                         HandLandmarks(h, NumLandmarks), X),
                                     confidence)

\* C6 witness: a letter matching alone, with a co-matching pose one move away
C6_AloneThenWithCompetitor ==
    /\ Returned /\ WellFormed /\ ~hand.collapsed
    /\ \E X \in GestureIds :
           Matched(landmarks) = {X} /\ CoMatchingMoves(X) /= {}

\* C7: an input whose length is not 21 gives (None, 0.0).
C7_MalformedGivesNone ==
    (Returned /\ ~WellFormed) =>
        (result.gesture = None /\ result.confidence = F_0_0)

\* the rules that raise, and the rules that return True
Raising(lm) == {g \in GestureIds : Call(g, lm) = "IndexError"}
ReturningTrue(lm) == {g \in GestureIds : Call(g, lm) = "True"}

\* C8: a rule that raises is no match, neither as a candidate nor as a
\* competitor in another letter's score; all 26 rules are evaluated and the
\* call returns a result decided by the rules that did not raise.
C8_RaisingRuleIsNoMatch ==
    (Returned /\ Raising(landmarks) /= {}) =>
        LET matched == ReturningTrue(landmarks)
        IN  /\ rule_index = NumGestures
            /\ logged = Raising(landmarks)
            /\ result.gesture \notin logged
            /\ \A g \in matched :
                   DecimalScore(landmarks, g, matched) > 70 => result.gesture /= None
            /\ result.gesture /= None =>
                   /\ result.gesture \in matched
                   /\ Cents(result.confidence)
                          = DecimalScore(landmarks, result.gesture, matched)

\* C8 witness: rules before and after the returned letter raised
C8_ReturnedAmongRaisingRules ==
    /\ Returned /\ result.gesture /= None
    /\ \E g \in logged : g < result.gesture
    /\ \E g \in logged : g > result.gesture

\* permutations of the rule order: Z..A, and N..Z followed by A..M
Reversed == [k \in 1 .. NumGestures |-> NumGestures - k]
Rotated  == [k \in 1 .. NumGestures |-> (k + 12) % NumGestures]
Orders   == {Reversed, Rotated}

Position(order, gesture_id) == CHOOSE k \in 1 .. NumGestures : order[k] = gesture_id

\* C9 as claimed: in any order of the rules the selector returns the same
\* letter and the same confidence as in the order A..Z.
C9_AnyOrderSameResult ==
    (Returned /\ WellFormed) =>
        \A order \in Orders : recognize_in_order(landmarks, order) = result

\* C9 amended: in any order of the rules the selector returns the same
\* confidence as in the order A..Z, and the same letter unless several
\* matched letters share the highest confidence: it then returns the one of
\* them that the order evaluates first.
C9_AnyOrderSameConfidence ==
    (Returned /\ WellFormed) =>
        LET matched == Matched(landmarks)
            top == {g \in matched :
                       get_gesture_confidence(landmarks, g) = result.confidence}
        IN  \A order \in Orders :
                LET r == recognize_in_order(landmarks, order)
                IN  /\ r.confidence = result.confidence
                    /\ (r.gesture = None) <=> (result.gesture = None)
                    /\ r.gesture /= None =>
                           /\ r.gesture \in top
                           /\ \A g \in top :
                                  Position(order, r.gesture) <= Position(order, g)
                    /\ Cardinality(top) <= 1 => r.gesture = result.gesture

\* C9 witness: B and C tie; A..Z returns B, Z..A returns C, at one confidence
C9_TieDecidedByOrder ==
    /\ Returned /\ WellFormed /\ result.gesture = 1
    /\ LET r == recognize_in_order(landmarks, Reversed)
       IN  r.gesture = 2 /\ r.confidence = result.confidence

\* every landmark is the same point
SamePoint(lm) == \A i \in 1 .. Len(lm) : lm[i] = lm[1]

\* C10 as claimed: with all 21 landmarks at one point every finger 0-4 is
\* closed and the rule of E matches.
C10_SamePointAllClosed ==
    (WellFormed /\ SamePoint(landmarks)) =>
        /\ \A f \in 0 .. 4 : is_finger_closed(landmarks, f)
        /\ RuleMatches(4, landmarks)

\* C10 amended: with all 21 landmarks at one point no finger 0-4 is closed
\* (0 < 0 and y > y are false) and the rule of E does not match.
C10_SamePointNoneClosed ==
    (WellFormed /\ SamePoint(landmarks)) =>
        /\ \A f \in 0 .. 4 : ~is_finger_closed(landmarks, f)
        /\ ~RuleMatches(4, landmarks)

\* C10 witness: the call on such a hand has returned; B, C, F and O matched
C10_SamePointClassified ==
    /\ Returned /\ WellFormed /\ SamePoint(landmarks)
    /\ Matched(landmarks) = {1, 2, 5, 14}

\* the pose of C11: index open and pointing up, middle, ring and pinky closed,
\* landmark 4 lower in the image than landmark 3
DPose ==
    /\ WellFormed /\ ~hand.collapsed
    /\ hand.index <= 3 /\ hand.middle /\ hand.ring /\ hand.pinky
    /\ landmarks[8 + 1].y < landmarks[5 + 1].y
    /\ landmarks[4 + 1].y > landmarks[3 + 1].y

C12_SameAsFirstCall ==
    Returned => result = recognize_gesture(landmarks)

\* C12 witness: a call made after an earlier classification has returned a
\* letter
C12_LaterCallReturned ==
    /\ Returned /\ calls >= 1 /\ result.gesture /= None

\* the wrist's x and y are both strictly between 0.2 and 0.8
StrictlyInside(lm) ==
    /\ 20 < lm[1].x /\ lm[1].x < 80
    /\ 20 < lm[1].y /\ lm[1].y < 80

\* the score of a letter before the centering step and the clamp, in
\* hundredths: base, reinforcement, 0.1 off for each other matching rule
BeforeCentering(lm, gesture_id) ==
    75 + BonusCents(lm, gesture_id) - 10 * Cardinality(Matched(lm) \ {gesture_id})

\* C13: the scorer adds 0.05 for centering iff the wrist's x and y are both
\* strictly between 0.2 and 0.8 (a coordinate of exactly 0.2 or 0.8 gets no
\* bonus), whatever the other landmarks and whatever the letter scored.
C13_BonusIffStrictlyInside ==
    (pc = "score" /\ result.gesture /= None) =>
        LET before == BeforeCentering(landmarks, result.gesture)
            raw    == Cents(RawConfidence(landmarks, result.gesture))
        IN  /\ StrictlyInside(landmarks) => raw = before + 5
            /\ ~StrictlyInside(landmarks) => raw = before
            /\ result.confidence = Clamp(RawConfidence(landmarks, result.gesture))

\* C13 witness: a wrist at x = 0.8 exactly, y inside: a matched letter is
\* scored without the bonus
C13_OnEdgeNoBonus ==
    /\ pc = "score" /\ result.gesture /= None
    /\ landmarks[1].x = 80 /\ 20 < landmarks[1].y /\ landmarks[1].y < 80
    /\ RuleMatches(result.gesture, landmarks)
    /\ Cents(result.confidence) = BeforeCentering(landmarks, result.gesture)

\* process_frame has returned its response
Responded == pc = "responded"

\* C14: process_frame reports a gesture (gesture_detected true, gesture and
\* confidence set) only when a hand was detected and the engine returned a
\* letter with confidence > 0.6; without a hand the engine is not called and
\* the response keeps hand_detected false, gesture_detected false, gesture
\* None and confidence 0.0.
C14_ReportedOnlyThroughGate ==
    Responded =>
        /\ response.gesture_detected =>
               /\ response.hand_detected
               /\ result.gesture /= None /\ FLess(F_0_6, result.confidence)
               /\ response.gesture = Letters[result.gesture + 1]
               /\ response.confidence = result.confidence
        /\ ~response.gesture_detected =>
               (response.gesture = "None" /\ response.confidence = F_0_0)
        /\ response.hand_detected <=> hand /= NoHand
        /\ hand = NoHand =>
               /\ response = NoResponse
               /\ landmarks = <<>> /\ rule_index = 0 /\ logged = {} /\ result = NoBest

\* C14 witness: a hand was detected, a rule matched, the engine returned
\* (None, 0.0) and no gesture is reported
C14_HandWithoutGesture ==
    /\ Responded /\ response.hand_detected /\ ~response.gesture_detected
    /\ best_gesture /= None /\ result = NoBest

\* C19: the caller's gate (> 0.6) never rejects what the engine accepted: a
\* letter returned by _recognize_gesture has a confidence > 0.7 already, so
\* gesture_detected is true iff the engine returned a letter, and no
\* confidence in (0.6, 0.7] is reported.
C19_GateNeverRejects ==
    (Responded /\ response.hand_detected) =>
        /\ result.gesture /= None => FLess(F_0_7, result.confidence)
        /\ response.gesture_detected <=> result.gesture /= None
        /\ ~(FLess(F_0_6, response.confidence) /\ ~FLess(F_0_7, response.confidence))

\* C19 witness: the engine's best is in (0.6, 0.7]: it returns None, and the
\* gate has nothing to pass
C19_BetweenTheThresholds ==
    /\ Responded /\ response.hand_detected
    /\ FLess(F_0_6, best_confidence) /\ ~FLess(F_0_7, best_confidence)
    /\ result = NoBest /\ ~response.gesture_detected

\* C15: two classifications of different inputs running on the same
\* recognizer, interleaved pass by pass in any way, each return what they
\* return when run alone.
C15_InterleavedAsAlone ==
    /\ pc = "done" => result = recognize_gesture(landmarks)
    /\ other.pc = "done" => other.result = recognize_gesture(other.landmarks)

\* C15 witness: the second call has returned its letter while the first,
\* which will return another, is in the middle of its loop
C15_OneDoneOneRunning ==
    /\ other.pc = "done" /\ other.result.gesture /= None
    /\ pc = "loop" /\ 0 < rule_index /\ rule_index < NumGestures
    /\ recognize_gesture(landmarks).gesture \notin {None, other.result.gesture}

\* C16: a classification leaves its argument, self.rules and self.gestures
\* as they were: no step of the call changes any of them.
C16_ArgumentAndTablesUnchanged ==
    [][pc = "loop" =>
           /\ landmarks' = landmarks
           /\ self_rules' = self_rules
           /\ self_gestures' = self_gestures]_vars

\* C16 witness: a call that logged errors and returned a letter; the
\* argument is the hand's landmarks and the tables are those of __init__
C16_ReturnedAndUnchanged ==
    /\ Returned /\ result.gesture /= None /\ logged /= {}
    /\ landmarks = HandLandmarks(hand, Len(landmarks))
    /\ Constructed

\* the pose of C17: thumb tip and index tip at one point, middle, ring and
\* pinky open (straight, or every landmark at the wrist)
FPose ==
    /\ WellFormed
    /\ landmarks[4 + 1] = landmarks[8 + 1]
    /\ ~hand.middle /\ ~hand.ring /\ ~hand.pinky

\* C17: on every 21-landmark pose where thumb tip and index tip coincide and
\* middle, ring and pinky are open, the rule of F matches, whatever the state
\* of the index finger and of the thumb.
C17_TouchingTipsMatchF ==
    FPose =>
        /\ \A f \in 2 .. 4 : ~is_finger_closed(landmarks, f)
        /\ RuleMatches(5, landmarks)

\* C17 witness: such a pose with the index finger closed and the thumb
\* closed, classified with F among the matches
C17_ClosedIndexAndThumb ==
    /\ Returned /\ FPose
    /\ is_finger_closed(landmarks, 1) /\ is_finger_closed(landmarks, 0)
    /\ RuleMatches(5, landmarks)

\* B, D, E, H, O, Q, V, W, Y
NineLetters == {1, 3, 4, 7, 14, 16, 21, 22, 24}

\* C18: the letter returned is None or one of B, D, E, H, O, Q, V, W, Y; the
\* other 17 letters are never returned.
C18_OnlyNineLetters ==
    (Returned /\ WellFormed) => result.gesture \in NineLetters \cup {None}

\* what is left of a matched letter's confidence, in hundredths, with its
\* reinforcement taken back
WithoutReinforcement(lm, gesture_id) ==
    Cents(get_gesture_confidence(lm, gesture_id)) - BonusCents(lm, gesture_id)

\* C20: every matched letter gets the same ambiguity penalty, 0.1 times the
\* number of matching rules less one, whichever letter is scored: the
\* confidences of letters matching together differ by their reinforcement
\* only.
C20_SamePenaltyForAll ==
    (Returned /\ WellFormed) =>
        LET matched  == Matched(landmarks)
            centring == IF StrictlyInside(landmarks) THEN 5 ELSE 0
        IN  matched /= {} =>
                {WithoutReinforcement(landmarks, X) : X \in matched}
                    = {75 - 10 * (Cardinality(matched) - 1) + centring}

\* C20 witness: three or more letters match, two of them with different
\* reinforcement, the first and the last of them among those
C20_ThreeMatchedTwoBonuses ==
    /\ Returned /\ WellFormed /\ ~hand.collapsed
    /\ LET matched == Matched(landmarks)
       IN  /\ Cardinality(matched) >= 3
           /\ \E X \in matched : \E Y \in matched :
                  /\ \A Z \in matched : X <= Z /\ Z <= Y
                  /\ BonusCents(landmarks, X) /= BonusCents(landmarks, Y)

\* the selector is about to score the letter of rule_index, whose rule matched
Scoring == pc = "loop" /\ rule_index < NumGestures /\ RuleMatches(rule_index, landmarks)

\* B, D, L, W, Y
AlwaysReinforced == {1, 3, 11, 22, 24}

C22_ClampChangesNothing ==
    (Returned /\ WellFormed) =>
        LET matched == Matched(landmarks)
        IN  /\ Cardinality(matched) <= 8
            /\ \A X \in matched :
                   LET raw == RawConfidence(landmarks, X)
                   IN  /\ 5 <= Cents(raw) /\ Cents(raw) <= 95
                       /\ get_gesture_confidence(landmarks, X) = raw

\* C22 witness: the tight fist away from the centre: A, E, M, N, O, S, T and
\* X match, each scored 0.75 - 0.7
C22_EightMatch ==
    /\ Returned /\ WellFormed
    /\ Matched(landmarks) = {0, 4, 12, 13, 14, 18, 19, 23}
    /\ \A X \in Matched(landmarks) : Cents(get_gesture_confidence(landmarks, X)) = 5

\* C23: with MediaPipe unavailable to the SignLanguageRecognizer, the pair
\* process_image returns is ("", 0.0) or a letter of A..J with 0.5, and the
\* response of /process_frame has no 'sign_language' entry
C23_NoEntryWithoutMediaPipe ==
    ~mediapipe_available =>
        /\ ~sign_language.present
        /\ \/ sign = NoSign
           \/ /\ sign.confidence = F_0_5
              /\ \E letter_index \in 0..9 : sign.text = asl_mapping[letter_index]

\* C23 witness: a request served without MediaPipe whose frame has a skin
\* contour of 5000 pixels: the fallback named a letter with 0.5, and the
\* response has no entry
C23_FallbackNamedALetter ==
    /\ ~mediapipe_available
    /\ frame.contours > 0 /\ frame.area = 5000
    /\ sign.text = "J" /\ sign.confidence = F_0_5
    /\ ~sign_language.present

\* the record of the request just saved, before and after it
SavedBefore ==
    {p \in practice_progress :
        p.user_id = saved'.user_id /\ p.gesture_id = GestureId(saved'.gesture_name)}
SavedAfter ==
    {q \in practice_progress' :
        q.user_id = saved'.user_id /\ q.gesture_id = GestureId(saved'.gesture_name)}

\* what one request does to the proficiency levels
ProficiencyStep ==
    /\ \A p \in practice_progress :
           \E q \in practice_progress' :
               /\ q.user_id = p.user_id /\ q.gesture_id = p.gesture_id
               /\ q.proficiency_level >= p.proficiency_level
    /\ (recognition_sessions' /= recognition_sessions /\ saved'.user_id /= 0) =>
           /\ Cardinality(SavedAfter) = 1
           /\ \A q \in SavedAfter :
                  IF SavedBefore = {}
                  THEN q.proficiency_level = IF saved'.success THEN 10 ELSE 5
                  ELSE \A p \in SavedBefore :
                           q.proficiency_level =
                               IF ~saved'.success THEN p.proficiency_level
                               ELSE IF p.proficiency_level + 5 <= 100
                                    THEN p.proficiency_level + 5 ELSE 100

\* C24: every PracticeProgress record has its proficiency_level within
\* 0..100 at all times; a request creates the record at 10 (success) or 5
\* (failure), a later successful save raises it by 5 capped at 100, a failed
\* save leaves it unchanged, and no level ever decreases
C24_ProficiencyWithinRange ==
    /\ [](\A p \in practice_progress :
             p.proficiency_level >= 0 /\ p.proficiency_level <= 100)
    /\ [][ProficiencyStep]_vars

\* C24 witness: a record created at 10, raised to 100 by eighteen successful
\* saves and then saved once more with success: it is still at 100
C24_CappedAndSavedAgain ==
    /\ \E p \in practice_progress :
           /\ p.proficiency_level = 100 /\ p.times_practiced = 20
           /\ saved.user_id = p.user_id /\ saved.success
           /\ GestureId(saved.gesture_name) = p.gesture_id
    /\ recognition_sessions = 20

\* the rows of the gestures table with this name
RowsNamed(name) == {id \in DOMAIN gestures : gestures[id] = name}

\* C25: once a call of initialize_default_gestures has returned and none is
\* under way, the gestures table holds exactly one row for each of the 26
\* letter names and no other row, however the calls overlapped
C25_OneRowPerName ==
    (init_calls > 0 /\ \A w \in Workers : workers[w].pc = "idle") =>
        /\ \A i \in DOMAIN default_gestures :
               Cardinality(RowsNamed(default_gestures[i])) = 1
        /\ Len(gestures) = Len(default_gestures)

====
